---- MODULE Spec2Model ----
(***************************************************************************)
(* binary_enclave (src/src/lib.rs): a typed payload stored in a named      *)
(* section of the running executable.  decode reads the in-memory copy of  *)
(* the section, write patches a copy of the executable file and renames it *)
(* over the original.                                                      *)
(*                                                                         *)
(* Numbers wider than 31 bits are kept as little-endian sequences of       *)
(* 16-bit limbs (a u32 has 2 limbs, a u64/usize has 4), so that the        *)
(* 64-bit arithmetic of the hasher and the byte conversions keep their     *)
(* width.  The host is 64-bit little-endian (to_ne_bytes = to_le_bytes).   *)
(***************************************************************************)
EXTENDS Integers, Sequences, FiniteSets, TLC

(***************************************************************************)
(* Bounds of the model.                                                    *)
(***************************************************************************)
\* the const generic SIZE of Enclave<T, SIZE>: capacity of `pack` in bytes
SIZE == 16
\* number of write calls a behaviour may begin
MaxWrites == 2
\* number of write(2) system calls fs::write needs for the whole image
MaxChunks == 2

(***************************************************************************)
(* Fixed-width integers.                                                   *)
(***************************************************************************)
\* F applied to the value of x: x is evaluated once, before F's body reads it
Let(F(_), x) == CHOOSE r \in {F(y) : y \in {x}} : TRUE

\* values of a u8 (lib.rs:66)
Byte == 256

\* values of a 16-bit limb
Limb == Byte * Byte

Min(a, b) == IF a < b THEN a ELSE b

TwoTo == <<2, 4, 8, 16, 32, 64, 128, 256, 512, 1024, 2048, 4096, 8192, 16384,
           32768, 65536>>

Pow2(n) == IF n = 0 THEN 1 ELSE TwoTo[n]

\* x ^ y on values below 2^n
RECURSIVE XorN(_, _, _)
XorN(x, y, n) ==
    IF n = 0 THEN 0
    ELSE ((x + y) % 2) + 2 * XorN(x \div 2, y \div 2, n - 1)

XorNibble == [a \in 0..15 |-> [b \in 0..15 |-> XorN(a, b, 4)]]

\* u8 ^ u8
Xor8(x, y) == XorNibble[x % 16][y % 16] + 16 * XorNibble[x \div 16][y \div 16]

\* x ^ y on limbs
Xor16(x, y) == Xor8(x % Byte, y % Byte) + Byte * Xor8(x \div Byte, y \div Byte)

\* u64 ^ u64
Xor64(a, b) ==
    <<Xor16(a[1], b[1]), Xor16(a[2], b[2]), Xor16(a[3], b[3]), Xor16(a[4], b[4])>>

\* u64::wrapping_add
Add64(a, b) ==
    LET s1 == a[1] + b[1]
        s2 == a[2] + b[2] + (s1 \div Limb)
        s3 == a[3] + b[3] + (s2 \div Limb)
        s4 == a[4] + b[4] + (s3 \div Limb)
    IN  <<s1 % Limb, s2 % Limb, s3 % Limb, s4 % Limb>>

\* u64::rotate_left
Rotl64(a, r) ==
    LET q == r \div 16
        s == r % 16
    IN  [i \in 1..4 |->
            IF s = 0 THEN a[((i - 1 - q + 8) % 4) + 1]
            ELSE ((a[((i - 1 - q + 8) % 4) + 1] % Pow2(16 - s)) * Pow2(s))
                 + (a[((i - 2 - q + 8) % 4) + 1] \div Pow2(16 - s))]

\* usize -> the 4-limb form, for the lengths the model can produce
NatToWord(n) == <<n % Limb, n \div Limb, 0, 0>>

\* a value no length of the model reaches: stands for every u64 >= 2^24
Huge == Byte * Limb

\* u64 as usize, exact below 2^24 and Huge from there on
WordToNat(w) ==
    IF w[3] = 0 /\ w[4] = 0 /\ w[2] < Byte THEN w[1] + Limb * w[2] ELSE Huge

\* {integer}::to_le_bytes / to_ne_bytes
WordToBytes(w) ==
    [i \in 1..(2 * Len(w)) |->
        IF i % 2 = 1 THEN w[(i + 1) \div 2] % Byte ELSE w[i \div 2] \div Byte]

\* {integer}::from_le_bytes / the in-memory reading of an integer field
BytesToWord(b) ==
    [i \in 1..(Len(b) \div 2) |-> b[2 * i - 1] + Byte * b[2 * i]]

(***************************************************************************)
(* std::collections::hash_map::DefaultHasher: SipHash-1-3 with both keys 0 *)
(* (lib.rs:39, used at 90-92 and 179-180 as new / write(bytes) / finish).  *)
(* The hasher state is <<v0, v1, v2, v3>>.                                 *)
(***************************************************************************)
SipV0 == <<25973, 28787, 28005, 29551>>  \* 0x736f6d6570736575
SipV1 == <<28525, 28260, 29281, 25711>>  \* 0x646f72616e646f6d
SipV2 == <<29281, 28261, 26469, 27769>>  \* 0x6c7967656e657261
SipV3 == <<25971, 31092, 25698, 29797>>  \* 0x7465646279746573

\* v0 += v1; v1 <<<= 13; v2 += v3; v3 <<<= 16
SipQ1(v) ==
    <<Add64(v[1], v[2]), Rotl64(v[2], 13), Add64(v[3], v[4]), Rotl64(v[4], 16)>>

\* v1 ^= v0; v0 <<<= 32; v3 ^= v2
SipQ2(v) == <<Rotl64(v[1], 32), Xor64(v[2], v[1]), v[3], Xor64(v[4], v[3])>>

\* v0 += v3; v3 <<<= 21; v2 += v1; v1 <<<= 17
SipQ3(v) ==
    <<Add64(v[1], v[4]), Rotl64(v[2], 17), Add64(v[3], v[2]), Rotl64(v[4], 21)>>

\* v3 ^= v0; v1 ^= v2; v2 <<<= 32
SipQ4(v) == <<v[1], Xor64(v[2], v[3]), Rotl64(v[3], 32), Xor64(v[4], v[1])>>

SipRound(v) == Let(SipQ4, Let(SipQ3, Let(SipQ2, Let(SipQ1, v))))

\* vm = <<state, message word>>: v3 ^= m
SipInject(vm) == <<vm[1][1], vm[1][2], vm[1][3], Xor64(vm[1][4], vm[2])>>

\* vm = <<state, message word>>: v0 ^= m
SipEject(vm) == <<Xor64(vm[1][1], vm[2]), vm[1][2], vm[1][3], vm[1][4]>>

\* one message word: v3 ^= m; c_rounds (1); v0 ^= m
SipCompress(v, m) == Let(SipEject, <<SipRound(Let(SipInject, <<v, m>>)), m>>)

RECURSIVE SipBlocks(_, _, _)
SipBlocks(v, bytes, k) ==
    IF 8 * k > Len(bytes) THEN v
    ELSE SipBlocks(SipCompress(v, BytesToWord(SubSeq(bytes, 8 * k - 7, 8 * k))),
                   bytes, k + 1)

\* the last word: the 0..7 tail bytes, zero padded, with the length in the top byte
SipTail(bytes) ==
    LET n == Len(bytes)
        t == n % 8
        padded == [i \in 1..8 |->
                     IF i <= t THEN bytes[n - t + i]
                     ELSE IF i = 8 THEN n % Byte ELSE 0]
    IN  BytesToWord(padded)

\* v2 ^= 0xff
SipFinal(v) == <<v[1], v[2], Xor64(v[3], <<255, 0, 0, 0>>), v[4]>>

\* v0 ^ v1 ^ v2 ^ v3
SipFold(v) == Xor64(Xor64(v[1], v[2]), Xor64(v[3], v[4]))

SipOf(bytes) ==
    Let(SipFold,
        SipRound(SipRound(SipRound(Let(SipFinal,
            SipCompress(SipBlocks(<<SipV0, SipV1, SipV2, SipV3>>, bytes, 1),
                        SipTail(bytes)))))))

\* hasher.write(bytes); hasher.finish()
SipHash13(bytes) == Let(SipOf, bytes)

(***************************************************************************)
(* The payload type T and its bincode form.  T is the Config of the crate  *)
(* documentation (lib.rs:22-23): struct Config { some: u32, values: String *)
(* }.  A Config is [some |-> 2 limbs, values |-> UTF-8 bytes].             *)
(***************************************************************************)
U32(n) == <<n % Limb, n \div Limb>>

Letters(n) == [i \in 1..n |-> 97 + (i % 26)]

\* bincode::serialize (fixed-width little-endian integers, u64 length prefix)
Serialize(v) ==
    WordToBytes(v.some) \o WordToBytes(NatToWord(Len(v.values))) \o v.values

\* number of continuation bytes a UTF-8 lead byte announces, -1 if it is none
Utf8Follow(b) ==
    IF b < 128 THEN 0
    ELSE IF b >= 194 /\ b <= 223 THEN 1
    ELSE IF b >= 224 /\ b <= 239 THEN 2
    ELSE IF b >= 240 /\ b <= 244 THEN 3
    ELSE -1

\* the range of the first continuation byte after lead byte b
Utf8Second(b, c) ==
    IF b = 224 THEN c >= 160 /\ c <= 191
    ELSE IF b = 237 THEN c >= 128 /\ c <= 159
    ELSE IF b = 240 THEN c >= 144 /\ c <= 191
    ELSE IF b = 244 THEN c >= 128 /\ c <= 143
    ELSE c >= 128 /\ c <= 191

\* str::from_utf8(s).is_ok(), from position i on
RECURSIVE Utf8From(_, _)
Utf8From(s, i) ==
    IF i > Len(s) THEN TRUE
    ELSE LET k == Utf8Follow(s[i])
         IN  /\ k >= 0
             /\ i + k <= Len(s)
             /\ k >= 1 => Utf8Second(s[i], s[i + 1])
             /\ \A j \in (i + 2)..(i + k) : s[j] >= 128 /\ s[j] <= 191
             /\ Utf8From(s, i + k + 1)

\* bincode::deserialize::<Config>(bytes): reads from the front of the slice,
\* bytes left over are allowed
DeserializeConfig(bytes) ==
    IF Len(bytes) < 12 THEN [ok |-> FALSE, err |-> "UnexpectedEof"]
    ELSE LET n == WordToNat(BytesToWord(SubSeq(bytes, 5, 12)))
         IN  IF n > Len(bytes) - 12 THEN [ok |-> FALSE, err |-> "UnexpectedEof"]
             ELSE IF ~Utf8From(SubSeq(bytes, 13, 12 + n), 1)
                  THEN [ok |-> FALSE, err |-> "InvalidUtf8Encoding"]
             ELSE [ok |-> TRUE,
                   val |-> [some |-> BytesToWord(SubSeq(bytes, 1, 4)),
                            values |-> SubSeq(bytes, 13, 12 + n)]]

Deserialize(bytes) == Let(DeserializeConfig, bytes)

(***************************************************************************)
(* The Enclave (lib.rs:62-104).                                            *)
(***************************************************************************)
\* size_of::<Enclave<T, SIZE>>() under repr(C): two 8-byte fields, the pack,
\* padding to the alignment of 8
StructSize == 16 + 8 * ((SIZE + 7) \div 8)

\* Enclave::new()
NewEnclave ==
    [len |-> NatToWord(0), checksum |-> NatToWord(0), pack |-> [i \in 1..SIZE |-> 0]]

\* the bytes of an Enclave in memory and in its section of the file
EnclaveBytes(e) ==
    WordToBytes(e.len) \o WordToBytes(e.checksum) \o e.pack
        \o [i \in 1..(StructSize - 16 - SIZE) |-> 0]

\* the Enclave static as the loader maps it from StructSize section bytes
LoadEnclave(b) ==
    [len |-> BytesToWord(SubSeq(b, 1, 8)),
     checksum |-> BytesToWord(SubSeq(b, 9, 16)),
     pack |-> SubSeq(b, 17, 16 + SIZE)]

NoConfig == [some |-> U32(0), values |-> <<>>]

\* the bincode error wins over the checksum; then the checksum over pack[0..len];
\* slicing pack[0..len] with len > SIZE panics
DecodeDeserializeFirst(e) ==
    Let(LAMBDA payload :
            IF ~payload.ok THEN [kind |-> "Deserialize", val |-> NoConfig]
            ELSE IF WordToNat(e.len) > SIZE THEN [kind |-> "Panic", val |-> NoConfig]
            ELSE IF SipHash13(SubSeq(e.pack, 1, WordToNat(e.len))) = e.checksum
                 THEN [kind |-> "Ok", val |-> payload.val]
            ELSE [kind |-> "PayloadChecksum", val |-> NoConfig],
        Deserialize(e.pack))

\* a decode whose checksum covers the whole pack, stale bytes included
DecodeHashWholePack(e) ==
    Let(LAMBDA payload :
            IF ~payload.ok THEN [kind |-> "Deserialize", val |-> NoConfig]
            ELSE IF SipHash13(e.pack) = e.checksum
                 THEN [kind |-> "Ok", val |-> payload.val]
            ELSE [kind |-> "PayloadChecksum", val |-> NoConfig],
        Deserialize(e.pack))

\* Enclave::decode
Decode(e) == DecodeDeserializeFirst(e)

\* Config::default() of #[derive(Default)]
DefaultConfig == [some |-> U32(0), values |-> <<>>]

\* Enclave::decode_or_default: self.decode().unwrap_or_default(); the panic
\* of decode is not an Err and passes through
DecodeOrDefault(e) ==
    Let(LAMBDA r :
            IF r.kind = "Panic" THEN r
            ELSE IF r.kind = "Ok" THEN [kind |-> "Value", val |-> r.val]
            ELSE [kind |-> "Value", val |-> DefaultConfig],
        Decode(e))

(***************************************************************************)
(* The executable file.  An image is a sequence of cells: cell 1 (file     *)
(* offset 0) stands for the container metadata goblin parses, as the       *)
(* number Byte + k naming Containers[k]; every other cell is a byte.       *)
(***************************************************************************)
\* EnclaveLocator::SECTION of the payload type, #[enclave(appconfig)]
SECTION == "appconfig"

TextBytes == <<144>>

\* bytes that follow the section in the file (they belong to something else)
PostBytes == <<170, 187, 204, 221>>

\* file offset of the section of the Enclave static
RegionOffset == 1 + Len(TextBytes)

TextSection == [name |-> ".text", offset |-> 1, size |-> Len(TextBytes)]

EnclaveSection == [name |-> SECTION, offset |-> RegionOffset, size |-> StructSize]

NoContainer == [os |-> "none", section_headers |-> <<>>, segments |-> <<>>]

\* the executables of the model: what the build produced for each target_os
Containers ==
    << [os |-> "linux", section_headers |-> <<TextSection, EnclaveSection>>,
        segments |-> <<>>],
       [os |-> "linux", section_headers |-> <<TextSection>>, segments |-> <<>>],
       [os |-> "macos", section_headers |-> <<>>,
        segments |-> << [name |-> "__TEXT", sections |-> <<TextSection>>],
                        [name |-> "__DATA", sections |-> <<EnclaveSection>>] >>],
       [os |-> "macos", section_headers |-> <<>>,
        segments |-> << [name |-> "__TEXT", sections |-> <<TextSection>>],
                        [name |-> "__DATA", sections |-> <<>>] >>],
       [os |-> "macos", section_headers |-> <<>>,
        segments |-> << [name |-> "__TEXT", sections |-> <<TextSection>>] >>],
       [os |-> "other", section_headers |-> <<>>, segments |-> <<>>] >>

Builds == 1..Len(Containers)

\* the executable as built: the static holds Enclave::new()
BuiltImage(b) == <<Byte + b>> \o TextBytes \o EnclaveBytes(NewEnclave) \o PostBytes

\* the image of build b with the region holding the content e
ImageWith(b, e) == <<Byte + b>> \o TextBytes \o EnclaveBytes(e) \o PostBytes

\* Elf::parse / MachO::parse: the metadata of the image, provided the image
\* starts with a container of the format this target_os reads
ParseContainer(os, data) ==
    IF Len(data) >= 1 /\ data[1] - Byte \in Builds /\ Containers[data[1] - Byte].os = os
    THEN [ok |-> TRUE, c |-> Containers[data[1] - Byte]]
    ELSE [ok |-> FALSE, c |-> NoContainer]

\* iter().find(pred) over a sequence: index of the first match, 0 if none
RECURSIVE FindFrom(_, _, _)
FindFrom(seq, name, i) ==
    IF i > Len(seq) THEN 0
    ELSE IF seq[i].name = name THEN i
    ELSE FindFrom(seq, name, i + 1)

NotLocated(kind) == [kind |-> kind, offset |-> 0, size |-> 0]

\* a lookup that settles for the first section header when the name is absent
LocateElfFirstSection(data) ==
    LET elf == ParseContainer("linux", data)
        i == FindFrom(elf.c.section_headers, SECTION, 1)
        j == IF i = 0 THEN 1 ELSE i
    IN  IF ~elf.ok THEN NotLocated("Parse")
        ELSE [kind |-> "Ok", offset |-> elf.c.section_headers[j].offset,
              size |-> elf.c.section_headers[j].size]

\* _write on linux: the section header named T::SECTION
LocateElf(data) ==
    LET elf == ParseContainer("linux", data)
        i == FindFrom(elf.c.section_headers, SECTION, 1)
    IN  IF ~elf.ok THEN NotLocated("Parse")
        ELSE IF i = 0 THEN NotLocated("SectionNotFound")
        ELSE [kind |-> "Ok", offset |-> elf.c.section_headers[i].offset,
              size |-> elf.c.section_headers[i].size]

\* _write on macos: the section named T::SECTION of the segment __DATA
LocateMachO(data) ==
    LET mach == ParseContainer("macos", data)
        s == FindFrom(mach.c.segments, "__DATA", 1)
        i == FindFrom(mach.c.segments[s].sections, SECTION, 1)
    IN  IF ~mach.ok THEN NotLocated("Parse")
        ELSE IF s = 0 THEN NotLocated("SectionNotFound")
        ELSE IF i = 0 THEN NotLocated("SectionNotFound")
        ELSE [kind |-> "Ok", offset |-> mach.c.segments[s].sections[i].offset,
              size |-> mach.c.segments[s].sections[i].size]

\* the cfg(target_os) choice among the three _write
Locate(os, data) ==
    IF os = "linux" THEN LocateElf(data)
    ELSE IF os = "macos" THEN LocateMachO(data)
    ELSE NotLocated("Panic")

\* a writer that inserts at pos instead of overwriting: the bytes after pos
\* move up
CursorInsert(data, pos, bytes) ==
    SubSeq(data, 1, Min(pos, Len(data)))
        \o [i \in 1..(pos - Min(pos, Len(data))) |-> 0]
        \o bytes
        \o SubSeq(data, pos + 1, Len(data))

\* Cursor<&mut Vec<u8>>: seek to pos, write_all(bytes); the Vec grows (zero
\* filled) when the write reaches beyond its end
CursorWrite(data, pos, bytes) ==
    LET n == IF Len(data) > pos + Len(bytes) THEN Len(data) ELSE pos + Len(bytes)
    IN  [i \in 1..n |->
            IF i > pos /\ i <= pos + Len(bytes) THEN bytes[i - pos]
            ELSE IF i <= Len(data) THEN data[i]
            ELSE 0]

\* the three write_all of write_binary: len, checksum, payload
FrameLenChecksumPayload(payload) ==
    WordToBytes(NatToWord(Len(payload))) \o WordToBytes(SipHash13(payload)) \o payload

\* a frame with the two header fields in the other order
FrameChecksumLenPayload(payload) ==
    WordToBytes(SipHash13(payload)) \o WordToBytes(NatToWord(Len(payload))) \o payload

EncodedFrame(payload) == FrameLenChecksumPayload(payload)

\* the size check of write_binary: the payload against the whole section
ExceedsSection(n, size) == n > size

\* write_binary up to the patched copy (lib.rs:171-187)
PatchBinary(data, v, offset, size) ==
    Let(LAMBDA payload :
            IF ExceedsSection(Len(payload), size)
            THEN [kind |-> "SectionSizeExceeded", payload |-> Len(payload),
                  section |-> size, data |-> data]
            ELSE [kind |-> "Ok", payload |-> Len(payload), section |-> size,
                  data |-> Let(LAMBDA frame : CursorWrite(data, offset, frame),
                               EncodedFrame(payload))],
        Serialize(v))

(***************************************************************************)
(* The values the callers write: the crate's {43, "see"}, the empty value, *)
(* and values whose bincode length sits on each side of SIZE, of the       *)
(* section's payload room and of the section size.                         *)
(***************************************************************************)
Values ==
    { [some |-> U32(0), values |-> <<>>],
      [some |-> U32(43), values |-> <<115, 101, 101>>],
      [some |-> U32(7), values |-> Letters(SIZE - 12)],
      [some |-> U32(7), values |-> Letters(SIZE - 11)],
      [some |-> U32(7), values |-> Letters(StructSize - 27)],
      [some |-> U32(7), values |-> Letters(StructSize - 12)],
      [some |-> U32(7), values |-> Letters(StructSize - 11)] }

\* the serialized form fits the reserved capacity
Fits(v) == Len(Serialize(v)) <= SIZE

(***************************************************************************)
(* State.                                                                  *)
(***************************************************************************)
Procs == {1, 2}

\* std::env::current_exe() and the sibling the patched copy is written to
ExePath == "exe"

\* the patched copy written straight to the executable's own path
TmpPathInPlace == "exe"

TmpPath == "exe.new"

Paths == {"exe", "exe.new"}

NoFile == [data |-> <<>>, mode |-> "absent"]

\* permission bits of the executable as installed, and of a file fs::write creates
ExeMode == "0755"

CreateMode == "0644"

NoResult == [kind |-> "None", payload |-> 0, section |-> 0]

NoDecode == [kind |-> "None", val |-> NoConfig]

NoWrite == [val |-> NoConfig, data |-> <<>>, perms |-> "absent", payload |-> 0, h |-> 0]

VARIABLES
    build,    \* which executable was built (index into Containers)
    fs,       \* the directory of the executable: path -> file
    pc,       \* per process: "off", "run", or the step of write it is at
    mem,      \* per process: the Enclave static as loaded at process start
    decoded,  \* per process: what the last decode() of this instance returned
    first,    \* per process: what the first decode() of this instance returned
    dflt,     \* per process: what the last decode_or_default() returned
    result,   \* per process: what the last write() of this instance returned
    wr,       \* per process: the locals of the write in progress
    fd,       \* per process: where the file opened by fs::write is linked now
    pos,      \* per process: the offset of that open file
    src,      \* per process: the installs that preceded the process start
    writes,   \* number of write calls begun
    hist,     \* the renames over the executable so far: value and outcome
    last,     \* the file before the latest write call, and what that call built
    flipped   \* a bit of the stored payload was flipped on disk

vars == <<build, fs, pc, mem, decoded, first, dflt, result, wr, fd, pos, src,
          writes, hist, last, flipped>>

\* the state before any process of the executable whose file is image has run
InitFrom(image) ==
    /\ fs = [p \in Paths |->
                IF p = ExePath THEN [data |-> image, mode |-> ExeMode]
                ELSE NoFile]
    /\ pc = [p \in Procs |-> "off"]
    /\ mem = [p \in Procs |-> NewEnclave]
    /\ decoded = [p \in Procs |-> NoDecode]
    /\ first = [p \in Procs |-> NoDecode]
    /\ dflt = [p \in Procs |-> NoDecode]
    /\ result = [p \in Procs |-> NoResult]
    /\ wr = [p \in Procs |-> NoWrite]
    /\ fd = [p \in Procs |-> "closed"]
    /\ pos = [p \in Procs |-> 0]
    /\ src = [p \in Procs |-> [hist |-> <<>>, flipped |-> FALSE]]
    /\ writes = 0
    /\ hist = <<>>
    /\ last = [pre |-> image, mode |-> ExeMode, post |-> <<>>, renamed |-> FALSE]
    /\ flipped = FALSE

\* the executable as the build leaves it: the region is Enclave::new()
Init == build \in Builds /\ InitFrom(BuiltImage(build))

Os == Containers[build].os

\* the section bytes of an image, as far as the image reaches
RegionBytes(data) ==
    [i \in 1..StructSize |->
        IF RegionOffset + i <= Len(data) THEN data[RegionOffset + i] ELSE 0]

\* execve of the executable works: it is executable and the image is whole
Runnable(f) == f.mode = ExeMode /\ Len(f.data) >= RegionOffset + StructSize

(***************************************************************************)
(* Process start and end, decode.                                          *)
(***************************************************************************)
\* a new process instance: the static is mapped from the file on disk
Start(p) ==
    /\ pc[p] = "off"
    /\ Runnable(fs[ExePath])
    /\ pc' = [pc EXCEPT ![p] = "run"]
    /\ mem' = [mem EXCEPT ![p] = LoadEnclave(RegionBytes(fs[ExePath].data))]
    /\ src' = [src EXCEPT ![p] = [hist |-> hist, flipped |-> flipped]]
    /\ decoded' = [decoded EXCEPT ![p] = NoDecode]
    /\ dflt' = [dflt EXCEPT ![p] = NoDecode]
    /\ result' = [result EXCEPT ![p] = NoResult]
    /\ UNCHANGED <<build, fs, first, wr, fd, pos, writes, hist, last, flipped>>

\* the process ends: nothing stays in memory, its file is closed
Gone(p) ==
    /\ pc' = [pc EXCEPT ![p] = "off"]
    /\ mem' = [mem EXCEPT ![p] = NewEnclave]
    /\ first' = [first EXCEPT ![p] = NoDecode]
    /\ wr' = [wr EXCEPT ![p] = NoWrite]
    /\ fd' = [fd EXCEPT ![p] = "closed"]
    /\ pos' = [pos EXCEPT ![p] = 0]

\* the process exits or is killed, at any point
Kill(p) ==
    /\ pc[p] # "off"
    /\ Gone(p)
    /\ decoded' = [decoded EXCEPT ![p] = NoDecode]
    /\ dflt' = [dflt EXCEPT ![p] = NoDecode]
    /\ result' = [result EXCEPT ![p] = NoResult]
    /\ src' = [src EXCEPT ![p] = [hist |-> <<>>, flipped |-> FALSE]]
    /\ UNCHANGED <<build, fs, writes, hist, last, flipped>>

\* CONFIG.decode(): reads the static only; a panic ends the process
DecodeCall(p) ==
    /\ pc[p] = "run"
    /\ \E r \in {Decode(mem[p])} :
           IF r.kind = "Panic"
           THEN /\ Gone(p)
                /\ decoded' = [decoded EXCEPT ![p] = r]
                /\ UNCHANGED <<build, fs, dflt, result, src, writes, hist, last,
                               flipped>>
           ELSE /\ decoded' = [decoded EXCEPT ![p] = r]
                /\ first' = [first EXCEPT ![p] =
                                IF first[p].kind = "None" THEN r ELSE first[p]]
                /\ UNCHANGED <<build, fs, pc, mem, dflt, result, wr, fd, pos,
                               src, writes, hist, last, flipped>>

\* CONFIG.decode_or_default(): reads the static only; a panic ends the process
DecodeOrDefaultCall(p) ==
    /\ pc[p] = "run"
    /\ \E r \in {DecodeOrDefault(mem[p])} :
           IF r.kind = "Panic"
           THEN /\ Gone(p)
                /\ dflt' = [dflt EXCEPT ![p] = r]
                /\ UNCHANGED <<build, fs, decoded, result, src, writes, hist,
                               last, flipped>>
           ELSE /\ dflt' = [dflt EXCEPT ![p] = r]
                /\ UNCHANGED <<build, fs, pc, mem, decoded, first, result, wr,
                               fd, pos, src, writes, hist, last, flipped>>

(***************************************************************************)
(* write (lib.rs:111-200), one action per file-system call.                *)
(***************************************************************************)
\* write() returns r to its caller
Return(p, r) ==
    /\ pc' = [pc EXCEPT ![p] = "run"]
    /\ result' = [result EXCEPT ![p] = r]
    /\ wr' = [wr EXCEPT ![p] = NoWrite]
    /\ fd' = [fd EXCEPT ![p] = "closed"]
    /\ pos' = [pos EXCEPT ![p] = 0]

\* CONFIG.write(&v) is called; the _write of an unsupported target_os panics
WriteCall(p, v) ==
    /\ pc[p] = "run"
    /\ writes < MaxWrites
    /\ ~flipped
    /\ writes' = writes + 1
    /\ IF Os = "other"
       THEN /\ Gone(p)
            /\ result' = [result EXCEPT ![p] = [NoResult EXCEPT !.kind = "Panic"]]
            /\ UNCHANGED <<build, fs, decoded, dflt, src, hist, last, flipped>>
       ELSE /\ pc' = [pc EXCEPT ![p] = "read_binary"]
            /\ wr' = [wr EXCEPT ![p] = [NoWrite EXCEPT !.val = v]]
            /\ last' = [pre |-> fs[ExePath].data, mode |-> fs[ExePath].mode,
                        post |-> <<>>, renamed |-> FALSE]
            /\ UNCHANGED <<build, fs, mem, decoded, dflt, first, result, fd, pos, src,
                           hist, flipped>>

\* read_binary, the section lookup, and write_binary up to the patched copy
ReadBinary(p) ==
    /\ pc[p] = "read_binary"
    /\ \E loc \in {Locate(Os, fs[ExePath].data)} :
       \E r \in {PatchBinary(fs[ExePath].data, wr[p].val, loc.offset, loc.size)} :
           IF loc.kind # "Ok"
           THEN /\ Return(p, [NoResult EXCEPT !.kind = loc.kind])
                /\ UNCHANGED last
           ELSE IF r.kind # "Ok"
           THEN /\ Return(p, [kind |-> r.kind, payload |-> r.payload,
                              section |-> r.section])
                /\ UNCHANGED last
           ELSE /\ pc' = [pc EXCEPT ![p] = "metadata"]
                /\ wr' = [wr EXCEPT ![p].data = r.data, ![p].payload = r.payload]
                /\ last' = [last EXCEPT !.post = r.data]
                /\ UNCHANGED <<result, fd, pos>>
    /\ UNCHANGED <<build, fs, mem, decoded, dflt, first, src, writes, hist, flipped>>

\* current_exe(), fs::metadata(&file)?.permissions(), the temporary file's name
Metadata(p) ==
    /\ pc[p] = "metadata"
    /\ pc' = [pc EXCEPT ![p] = "create"]
    /\ wr' = [wr EXCEPT ![p].perms = fs[ExePath].mode]
    /\ UNCHANGED <<build, fs, mem, decoded, dflt, first, result, fd, pos, src, writes,
                   hist, last, flipped>>

\* fs::write, its File::create: the file is created, or truncated if it exists
CreateTmp(p) ==
    /\ pc[p] = "create"
    /\ pc' = [pc EXCEPT ![p] = "write"]
    /\ fs' = [fs EXCEPT ![TmpPath] =
                 [data |-> <<>>,
                  mode |-> IF fs[TmpPath] = NoFile THEN CreateMode
                           ELSE fs[TmpPath].mode]]
    /\ fd' = [fd EXCEPT ![p] = TmpPath]
    /\ pos' = [pos EXCEPT ![p] = 0]
    /\ UNCHANGED <<build, mem, decoded, dflt, first, result, wr, src, writes, hist,
                   last, flipped>>

\* bytes one write(2) call of fs::write's write_all transfers
ChunkLen(data) == (Len(data) + MaxChunks - 1) \div MaxChunks

\* fs::write, one write(2) of its write_all, through the open file wherever it
\* is linked by now; after the last one the file is closed
WriteChunk(p) ==
    /\ pc[p] = "write"
    /\ \E data \in {wr[p].data} :
       \E to \in {Min(pos[p] + ChunkLen(data), Len(data))} :
       \E chunk \in {SubSeq(data, pos[p] + 1, to)} :
           /\ fs' = IF fd[p] \in Paths
                    THEN [fs EXCEPT ![fd[p]].data = CursorWrite(@, pos[p], chunk)]
                    ELSE fs
           /\ pos' = [pos EXCEPT ![p] = to]
           /\ pc' = [pc EXCEPT ![p] = IF to = Len(data) THEN "rename" ELSE "write"]
           /\ fd' = [fd EXCEPT ![p] = IF to = Len(data) THEN "closed" ELSE fd[p]]
    /\ UNCHANGED <<build, mem, decoded, dflt, first, result, wr, src, writes, hist,
                   last, flipped>>

\* fs::rename(&tmpfile, &file): fails when the temporary file is not there
Rename(p) ==
    /\ pc[p] = "rename"
    /\ IF fs[TmpPath] = NoFile
       THEN /\ Return(p, [NoResult EXCEPT !.kind = "Io"])
            /\ UNCHANGED <<fs, hist, last>>
       ELSE /\ fs' = [fs EXCEPT ![TmpPath] = NoFile, ![ExePath] = fs[TmpPath]]
            /\ fd' = [q \in Procs |->
                         IF fd[q] = TmpPath THEN ExePath
                         ELSE IF fd[q] = ExePath THEN "unlinked"
                         ELSE fd[q]]
            /\ pc' = [pc EXCEPT ![p] = "set_permissions"]
            /\ hist' = Append(hist, [val |-> wr[p].val, ok |-> FALSE,
                                   image |-> wr[p].data])
            /\ wr' = [wr EXCEPT ![p].h = Len(hist) + 1]
            /\ last' = [last EXCEPT !.renamed = TRUE]
            /\ UNCHANGED <<result, pos>>
    /\ UNCHANGED <<build, mem, decoded, dflt, first, src, writes, flipped>>

\* fs::set_permissions(&file, perms); Ok(payload.len())
SetPermissions(p) ==
    /\ pc[p] = "set_permissions"
    /\ fs' = [fs EXCEPT ![ExePath].mode = wr[p].perms]
    /\ hist' = [hist EXCEPT ![wr[p].h].ok = TRUE]
    /\ Return(p, [kind |-> "Ok", payload |-> wr[p].payload, section |-> 0])
    /\ UNCHANGED <<build, mem, decoded, dflt, first, src, writes, last, flipped>>

IoSteps == {"read_binary", "metadata", "create", "write", "rename", "set_permissions"}

\* the file-system call the write is at fails, and `?` returns the error
IoError(p) ==
    /\ pc[p] \in IoSteps
    /\ Return(p, [NoResult EXCEPT !.kind = "Io"])
    /\ UNCHANGED <<build, fs, mem, decoded, dflt, first, src, writes, hist, last, flipped>>

(***************************************************************************)
(* The environment: corruption of the file on disk.                        *)
(***************************************************************************)
\* the image with bit k of the byte at file offset off flipped
FlipAt(data, off, k) == [data EXCEPT ![off + 1] = Xor8(@, Pow2(k))]

\* one bit of buffer[0..length] of the stored region flips, while no process
\* of the executable runs; it is the last change to the file in a behaviour
FlipBit ==
    /\ ~flipped
    /\ \A p \in Procs : pc[p] = "off"
    /\ Len(fs[ExePath].data) >= RegionOffset + StructSize
    /\ \E n \in {WordToNat(LoadEnclave(RegionBytes(fs[ExePath].data)).len)} :
       \E i \in 1..Min(n, SIZE) :
       \E k \in 0..7 :
           fs' = [fs EXCEPT ![ExePath].data = FlipAt(@, RegionOffset + 15 + i, k)]
    /\ flipped' = TRUE
    /\ UNCHANGED <<build, pc, mem, decoded, dflt, first, result, wr, fd, pos, src,
                   writes, hist, last>>

(***************************************************************************)
(* Specifications.                                                         *)
(***************************************************************************)
\* what a process does apart from calling write
Other(p) ==
    \/ Start(p)
    \/ Kill(p)
    \/ DecodeCall(p)
    \/ ReadBinary(p)
    \/ Metadata(p)
    \/ CreateTmp(p)
    \/ WriteChunk(p)
    \/ Rename(p)
    \/ SetPermissions(p)
    \/ IoError(p)

\* one process instance at a time
Next ==
    \/ \E v \in Values : WriteCall(1, v)
    \/ Other(1)

Spec == Init /\ [][Next]_vars

\* the values the two racing writers write: both fit
RaceValues ==
    { [some |-> U32(0), values |-> <<>>],
      [some |-> U32(43), values |-> <<115, 101, 101>>] }

\* two processes of the same executable
NextConc ==
    \E p \in Procs :
        \/ \E v \in RaceValues : WriteCall(p, v)
        \/ Other(p)

SpecConc == Init /\ [][NextConc]_vars
\* the values written before the disk is corrupted: all fit
StoredValues ==
    { [some |-> U32(0), values |-> <<>>],
      [some |-> U32(43), values |-> <<115, 101, 101>>],
      [some |-> U32(7), values |-> Letters(SIZE - 12)] }

\* one process instance at a time, and a disk that may flip a bit
NextCorrupt ==
    \/ \E v \in StoredValues : WriteCall(1, v)
    \/ Other(1)
    \/ FlipBit

SpecCorrupt == Init /\ [][NextCorrupt]_vars

\* length fields a region may hold: none, a header-only payload, the capacity,
\* one past the capacity, and a u64 far beyond it
RegionLens == {NatToWord(0), NatToWord(12), NatToWord(SIZE), NatToWord(SIZE + 1),
               <<0, 0, 0, 1>>}

\* buffers a region may hold: zeros, a value, a string running past the
\* buffer, and a string that is not UTF-8
RegionPacks ==
    { [i \in 1..SIZE |-> 0],
      Serialize([some |-> U32(43), values |-> <<115, 101, 101>>])
          \o [i \in 1..(SIZE - 15) |-> 0],
      SubSeq(Serialize([some |-> U32(7), values |-> Letters(SIZE - 11)]), 1, SIZE),
      Serialize([some |-> U32(7), values |-> <<255>>])
          \o [i \in 1..(SIZE - 13) |-> 0] }

\* any content of the region: every length with every buffer, under a zero
\* checksum and under the checksum of the bytes the length covers
Regions ==
    UNION { { [len |-> n, checksum |-> NatToWord(0), pack |-> b],
              [len |-> n, pack |-> b,
               checksum |-> SipHash13(SubSeq(b, 1, Min(WordToNat(n), SIZE)))] }
            : <<n, b>> \in RegionLens \X RegionPacks }

\* an executable whose region holds any content, before a process has run
InitRegion ==
    /\ build \in Builds
    /\ \E e \in Regions : InitFrom(ImageWith(build, e))

\* one process instance at a time, reading its region
NextRegion ==
    \/ Start(1)
    \/ Kill(1)
    \/ DecodeCall(1)
    \/ DecodeOrDefaultCall(1)

SpecRegion == InitRegion /\ [][NextRegion]_vars

(***************************************************************************)
(* Properties.                                                             *)
(***************************************************************************)
Ok(v) == [kind |-> "Ok", val |-> v]

\* the latest install that preceded the start of process p
Installed(p) == src[p].hist[Len(src[p].hist)]

\* process p has decoded, and a write that returned Ok was the latest to
\* install the executable before p started, on an uncorrupted disk
DecodedAfterWrite(p) ==
    /\ decoded[p].kind # "None"
    /\ src[p].hist # <<>>
    /\ Installed(p).ok
    /\ ~src[p].flipped

\* C1: a process started after a successful write(v), with v's serialized
\* form within the capacity SIZE, decodes Ok(v).
RoundTrip ==
    \A p \in Procs :
        (DecodedAfterWrite(p) /\ Fits(Installed(p).val))
            => decoded[p] = Ok(Installed(p).val)

RoundTripWitness ==
    \E p \in Procs :
        /\ DecodedAfterWrite(p)
        /\ Fits(Installed(p).val)
        /\ Len(Installed(p).val.values) = SIZE - 12
        /\ decoded[p] = Ok(Installed(p).val)

\* C2: with one writer, killed at any step or not, the file at the
\* executable's path is the whole pre-write file until the rename has
\* happened and the whole patched file from then on.
CrashSafe ==
    fs[ExePath].data = IF last.renamed THEN last.post ELSE last.pre

\* the writer was killed with the temporary file half written
CrashSafeWitness ==
    /\ pc[1] = "off"
    /\ writes >= 1
    /\ fs[TmpPath] # NoFile
    /\ fs[TmpPath].data # <<>>
    /\ Len(fs[TmpPath].data) < Len(last.post)
    /\ ~last.renamed
    /\ fs[ExePath].data = last.pre
    /\ last.post # last.pre

\* C3: during and after a write, also when the writer is killed between two
\* steps, the file at the executable's path carries the permission bits the
\* executable had.
PermissionsKept == fs[ExePath].mode = ExeMode

\* C4: a write goes on past the size check only if the payload leaves room
\* for the 16 header bytes in the section, and SectionSizeExceeded reports the
\* section size less those 16 bytes as what is available.
CapacityBoundary ==
    \A p \in Procs :
        /\ pc[p] \in (IoSteps \ {"read_binary"}) => wr[p].payload <= StructSize - 16
        /\ result[p].kind = "SectionSizeExceeded"
              => /\ result[p].payload >= StructSize - 15
                 /\ result[p].section = StructSize - 16

\* C5: within one process instance every decode returns what the first one
\* returned, whatever was written in between; and a process started after a
\* write(v) that returned Ok decodes Ok(v).
TwoTierVisibility ==
    \A p \in Procs :
        /\ first[p].kind # "None" => decoded[p] = first[p]
        /\ DecodedAfterWrite(p) => decoded[p] = Ok(Installed(p).val)

\* the first half of C5 alone: within one process instance every decode
\* returns what the first one returned
DecodeStableInProcess ==
    \A p \in Procs : first[p].kind # "None" => decoded[p] = first[p]

\* a process that decoded, wrote with success, and decoded again
DecodeStableInProcessWitness ==
    \E p \in Procs :
        /\ first[p].kind # "None"
        /\ result[p].kind = "Ok"
        /\ mem[p] # LoadEnclave(RegionBytes(fs[ExePath].data))

\* the length field of the Enclave of process p is within the pack, and the
\* checksum field is not the hash of pack[0..len]
ChecksumDisagrees(p) ==
    /\ WordToNat(mem[p].len) <= SIZE
    /\ SipHash13(SubSeq(mem[p].pack, 1, WordToNat(mem[p].len))) # mem[p].checksum

\* C6: whenever the checksum recomputed over pack[0..len] disagrees with the
\* stored one, decode returns the checksum error, whether or not the bytes
\* parse.
ChecksumBeforeDeserialize ==
    \A p \in Procs :
        (decoded[p].kind # "None" /\ pc[p] = "run" /\ ChecksumDisagrees(p))
            => decoded[p].kind = "PayloadChecksum"

\* C7: after a write that returned Ok and one flipped bit inside
\* buffer[0..length] of the stored region, decode in a new process returns
\* the checksum error and nothing else.
BitFlipDetected ==
    \A p \in Procs :
        (/\ decoded[p].kind # "None"
         /\ src[p].hist # <<>>
         /\ Installed(p).ok
         /\ src[p].flipped)
            => decoded[p].kind = "PayloadChecksum"

\* C8: with two writers racing, the file at the executable's path is at all
\* times the executable as built or, once a rename has happened, the whole
\* patched image of the writer that renamed last.
LastRenameWins ==
    fs[ExePath].data =
        IF hist = <<>> THEN BuiltImage(build) ELSE hist[Len(hist)].image

\* process p started after two writes that returned Ok, the second of a
\* value with a shorter serialized form; both values fit
AfterShrink(p) ==
    /\ DecodedAfterWrite(p)
    /\ Len(src[p].hist) >= 2
    /\ src[p].hist[Len(src[p].hist) - 1].ok
    /\ Fits(src[p].hist[Len(src[p].hist) - 1].val)
    /\ Fits(Installed(p).val)
    /\ Len(Serialize(Installed(p).val))
          < Len(Serialize(src[p].hist[Len(src[p].hist) - 1].val))

\* C9: after write(v1) and then write(v2), both fitting and v2 shorter, a new
\* process decodes Ok(v2): the bytes of v1 left beyond v2's length do not
\* count.
ShrinkNoLeak ==
    \A p \in Procs : AfterShrink(p) => decoded[p] = Ok(Installed(p).val)

\* the pack of the decoding process still holds bytes of the longer value
ShrinkNoLeakWitness ==
    \E p \in Procs :
        /\ AfterShrink(p)
        /\ decoded[p] = Ok(Installed(p).val)
        /\ mem[p].pack[WordToNat(mem[p].len) + 1] # 0

\* names of the sections the lookup of this target_os goes through
SectionNames(c) ==
    {c.section_headers[i].name : i \in 1..Len(c.section_headers)}
    \cup UNION {{c.segments[j].sections[i].name : i \in 1..Len(c.segments[j].sections)}
                : j \in {k \in 1..Len(c.segments) : c.segments[k].name = "__DATA"}}

\* the executable is of a supported format and has no section of T's name
MissingRegion ==
    /\ Os \in {"linux", "macos"}
    /\ SECTION \notin SectionNames(Containers[build])

\* C10: on an executable without the section, a write that read the file
\* returns SectionNotFound, never gets past the lookup, and the directory
\* stays as it was: the executable untouched, no temporary file.
MissingRegionNoWrite ==
    MissingRegion =>
        /\ fs[ExePath] = [data |-> BuiltImage(build), mode |-> ExeMode]
        /\ fs[TmpPath] = NoFile
        /\ \A p \in Procs :
              /\ pc[p] \in {"off", "run", "read_binary"}
              /\ result[p].kind \in {"None", "SectionNotFound", "Io"}

MissingRegionNoWriteWitness ==
    /\ MissingRegion
    /\ result[1].kind = "SectionNotFound"
    /\ writes = MaxWrites

\* C11: decode_or_default returns a value for every content of the region and
\* never aborts: the decoded value when decode succeeds, else the default.
DecodeOrDefaultTotal ==
    \A p \in Procs :
        /\ dflt[p].kind # "Panic"
        /\ (dflt[p].kind = "Value" /\ decoded[p].kind # "None")
               => dflt[p].val = IF decoded[p].kind = "Ok" THEN decoded[p].val
                                ELSE DefaultConfig

\* C12: on a target_os other than linux and macos every write returns an error
\* value to its caller, the process lives on, and decode works there.
UnsupportedReportsError ==
    Os = "other" =>
        \A p \in Procs :
            /\ result[p].kind \notin {"Panic", "Ok"}
            /\ decoded[p].kind # "Panic"

\* the latest two renames over the executable were two successful writes of
\* the same value, which fits
WroteTwice ==
    /\ Len(hist) >= 2
    /\ hist[Len(hist) - 1].ok
    /\ hist[Len(hist)].ok
    /\ hist[Len(hist)].val = hist[Len(hist) - 1].val
    /\ Fits(hist[Len(hist)].val)

\* C13: writing a fitting v twice in succession leaves the file byte for byte
\* as the first write left it, and a new process decodes Ok(v) from it.
WriteIdempotent ==
    WroteTwice =>
        /\ fs[ExePath].data = hist[Len(hist) - 1].image
        /\ \A p \in Procs :
               (decoded[p].kind # "None" /\ src[p].hist = hist)
                   => decoded[p] = Ok(hist[Len(hist)].val)

WriteIdempotentWitness ==
    /\ WroteTwice
    /\ hist[Len(hist)].val.values # <<>>
    /\ fs[ExePath].data # BuiltImage(build)
    /\ \E p \in Procs : src[p].hist = hist /\ decoded[p] = Ok(hist[Len(hist)].val)

\* image b differs from image a only inside the section's byte range
\* [offset, offset + size), and is as long as a
SameOutsideRegion(a, b) ==
    /\ Len(b) = Len(a)
    /\ \A i \in 1..Min(Len(a), Len(b)) :
           (i <= RegionOffset \/ i > RegionOffset + StructSize) => b[i] = a[i]

\* C14: a write that returned Ok changed only bytes within the section's byte
\* range; every byte outside it and the file length are as before the call.
PatchFrame ==
    \A p \in Procs :
        (pc[p] = "run" /\ result[p].kind = "Ok")
            => SameOutsideRegion(last.pre, fs[ExePath].data)

\* C15: after any sequence of writes the length field of the region stored in
\* the executable is at most SIZE, and no decode indexes beyond the buffer.
RegionLenBounded ==
    /\ Len(fs[ExePath].data) >= RegionOffset + StructSize
           => WordToNat(LoadEnclave(RegionBytes(fs[ExePath].data)).len) <= SIZE
    /\ \A p \in Procs : decoded[p].kind # "Panic"

\* C16: when write has returned an error, the file at the executable's path
\* has the bytes and the permission bits it had before the call.
ErrorLeavesUnchanged ==
    \A p \in Procs :
        (pc[p] = "run" /\ result[p].kind \notin {"None", "Ok"})
            => fs[ExePath] = [data |-> last.pre, mode |-> last.mode]
====
